---- MODULE Spec2Model ----
(***************************************************************************)
(* Model of package archive (github.com/kristinjeanna/archive).            *)
(*                                                                         *)
(* Two components are modelled:                                            *)
(*   - the type resolver DetermineType, with the descriptor table          *)
(*     typeInfoMap, makeRegex and the regular-expression match it uses;    *)
(*   - the five walkers WalkZip, WalkTar, WalkTarBzip2, WalkTarGz and      *)
(*     WalkTarXz with readTar, their deferred Close calls and the          *)
(*     callback they invoke.                                               *)
(*                                                                         *)
(* Strings are sequences of one-rune strings, so that lowercasing, regex   *)
(* construction and suffix matching are computed rune by rune.             *)
(***************************************************************************)
EXTENDS Integers, Sequences, FiniteSets, TLC

(***************************************************************************)
(* Bounds of the model.                                                    *)
(***************************************************************************)
\* number of fragments a filename handed to DetermineType is built from
MaxParts == 2
\* number of entries of the archive handed to a walker
MaxEntries == 3
\* number of fragments of the filenames whose visiting orders are recorded
MaxVisitParts == 1
\* number of goroutines that call DetermineType concurrently
NumCalls == 1

(***************************************************************************)
(* Archive types: const ( Tar Type = iota + 1; TarBz2; TarGz; TarXz; Zip ) *)
(***************************************************************************)
Tar == 1
TarBz2 == 2
TarGz == 3
TarXz == 4
Zip == 5
\* the zero value of Type, returned with ErrUnknownType
TypeZero == 0

Types == {Tar, TarBz2, TarGz, TarXz, Zip}

(***************************************************************************)
(* Error values.  An error is a record: msg is its text (for an error made *)
(* by fmt.Errorf, the format string), cause is the text of the error that  *)
(* %v formats into it ("" when there is none), and at tells apart the      *)
(* values that different invocations of a callback return (0 otherwise).   *)
(***************************************************************************)
NilErr == [msg |-> "<nil>", cause |-> "", at |-> 0]

NewError(text) == [msg |-> text, cause |-> "", at |-> 0]

fmtErrArchiveOpen == "archive: failed to open archive: %v"
fmtErrNewGzReader == "archive: failed to gz reader: %v"
fmtErrNewXzReader == "archive: failed to xz reader: %v"

ErrUnknownType == NewError("archive: unable to determine type")

\* fmt.Errorf(format, err) for a format holding one %v
Errorf(format, err) == [msg |-> format, cause |-> err.msg, at |-> 0]

(***************************************************************************)
(* Errors of the libraries the walkers call.                               *)
(***************************************************************************)
\* os.Open, zip.OpenReader: the path cannot be opened
ErrNotExist == NewError("open: no such file or directory")
\* zip.OpenReader: the file is no zip archive
ErrZipFormat == NewError("zip: not a valid zip file")
\* gzip.NewReader: the stream does not start with a gzip header
ErrGzipHeader == NewError("gzip: invalid header")
\* xz.NewReader or the first read through it: no xz stream header
ErrXzHeader == NewError("xz: file format not recognized")
\* the first read through bzip2's reader: no bzip2 magic
ErrBzip2Magic == NewError("bzip2 data invalid: bad magic value")
\* (*tar.Reader).Next: a corrupt header, a truncated archive
ErrTarHeader == NewError("archive/tar: invalid tar header")
ErrUnexpectedEOF == NewError("unexpected EOF")
\* (*tar.Reader).Next at the end of the archive
EOF == NewError("EOF")
\* the error the i-th invocation of a failing callback returns
CallbackError(i) == [msg |-> "an error in callback processing", cause |-> "", at |-> i]

VARIABLES
    typeInfoMap,   \* map[Type]typeInfo, each entry [extensions, regex]
    filename,      \* the argument of DetermineType, a sequence of runes
    parts,         \* number of fragments filename was built from
    rpc,           \* resolver position: "Building" or "Returned"
    result         \* what DetermineType returned: [type, err]

rvars == <<typeInfoMap, filename, parts, rpc, result>>

VARIABLES
    wpc,           \* walker position: "Idle", "Opening", "NewReader",
                   \* "Iterating" or "Closed" (the call has returned)
    walker,        \* the walker called
    archive,       \* the file at archivePath
    callback,      \* the callback argument
    open,          \* the handles and decompression readers now open
    deferred,      \* the Close calls deferred so far, in order
    streamErr,     \* error the decompression layer reports at its first read
    pos,           \* entries reader.Next() / the range loop has delivered
    calls,         \* the callback's invocations, in order
    ret            \* the error the walker returned

wvars == <<wpc, walker, archive, callback, open, deferred, streamErr, pos, calls, ret>>

VARIABLES
    visited,       \* the keys the range loop of a DetermineType call tested,
                   \* in the order it tested them
    gor            \* concurrent DetermineType calls, one record per goroutine

cvars == <<visited, gor>>

vars == <<rvars, wvars, cvars>>

(***************************************************************************)
(* The descriptor table as init() builds it.                               *)
(***************************************************************************)
TypeInfo(extensions) == [extensions |-> extensions, regex |-> <<>>]

\* the extension literals of init()
ExtTar      == <<".", "t", "a", "r">>
ExtTarBz2   == <<".", "t", "a", "r", ".", "b", "z", "2">>
ExtTarBzip2 == <<".", "t", "a", "r", ".", "b", "z", "i", "p", "2">>
ExtTbz      == <<".", "t", "b", "z">>
ExtTbz2     == <<".", "t", "b", "z", "2">>
ExtTarGz    == <<".", "t", "a", "r", ".", "g", "z">>
ExtTgz      == <<".", "t", "g", "z">>
ExtTarXz    == <<".", "t", "a", "r", ".", "x", "z">>
ExtTxz      == <<".", "t", "x", "z">>
ExtZip      == <<".", "z", "i", "p">>

InitTypeInfoMap ==
    [t \in Types |->
        CASE t = Tar    -> TypeInfo(<<ExtTar>>)
          [] t = TarBz2 -> TypeInfo(<<ExtTarBz2, ExtTarBzip2, ExtTbz, ExtTbz2>>)
          [] t = TarGz  -> TypeInfo(<<ExtTarGz, ExtTgz>>)
          [] t = TarXz  -> TypeInfo(<<ExtTarXz, ExtTxz>>)
          [] t = Zip    -> TypeInfo(<<ExtZip>>)]

(***************************************************************************)
(* strings.ToLower: every rune is mapped by unicode.ToLower.  The runes    *)
(* of the model are the ASCII letters the fragments use, plus U+0130       *)
(* (capital I with dot above), whose unicode.ToLower is the ASCII "i".     *)
(***************************************************************************)
ToLowerRune(c) ==
    CASE c = "A" -> "a"
      [] c = "B" -> "b"
      [] c = "G" -> "g"
      [] c = "I" -> "i"
      [] c = "P" -> "p"
      [] c = "R" -> "r"
      [] c = "T" -> "t"
      [] c = "X" -> "x"
      [] c = "Z" -> "z"
      [] c = "U+0130" -> "i"
      [] OTHER -> c

\* variant: the filename is matched as given, without lowercasing
ToLowerMissing(s) == s

ToLower(s) == [i \in 1..Len(s) |-> ToLowerRune(s[i])]

(***************************************************************************)
(* makeRegex: strings.Join(extensions, "|"), every "." replaced by "\.",   *)
(* the whole wrapped by fmt.Sprintf("(%s)$", regex).                        *)
(***************************************************************************)
RECURSIVE Join(_, _)
Join(elems, sep) ==
    IF Len(elems) = 0 THEN <<>>
    ELSE IF Len(elems) = 1 THEN elems[1]
    ELSE elems[1] \o sep \o Join(Tail(elems), sep)

RECURSIVE Replace(_, _, _)
Replace(s, old, new) ==
    IF Len(s) = 0 THEN <<>>
    ELSE (IF s[1] = old THEN new ELSE <<s[1]>>) \o Replace(Tail(s), old, new)

\* variant: the dots are left unescaped, so that each matches any rune
makeRegexUnescaped(extensions) ==
    <<"(">> \o Join(extensions, <<"|">>) \o <<")", "$">>

\* variant: the "$" is left out, so that a suffix matches anywhere
makeRegexUnanchored(extensions) ==
    <<"(">> \o Replace(Join(extensions, <<"|">>), ".", <<"\\", ".">>) \o <<")">>

makeRegex(extensions) ==
    LET joined  == Join(extensions, <<"|">>)
        escaped == Replace(joined, ".", <<"\\", ".">>)
    IN  <<"(">> \o escaped \o <<")", "$">>

(***************************************************************************)
(* The fragment of package regexp that the expressions built by makeRegex  *)
(* (and their plausible variants) use: a capturing group, alternation,     *)
(* "\" escapes, "." for any rune and a trailing "$", which without the     *)
(* m flag matches at the end of the text only.                             *)
(***************************************************************************)
RECURSIVE Lex(_, _)
Lex(re, i) ==
    IF i > Len(re) THEN <<>>
    ELSE IF re[i] = "\\" /\ i < Len(re)
         THEN <<[kind |-> "lit", c |-> re[i + 1]]>> \o Lex(re, i + 2)
    ELSE IF re[i] = "." THEN <<[kind |-> "any", c |-> ""]>> \o Lex(re, i + 1)
    ELSE IF re[i] \in {"|", "(", ")", "$"}
         THEN <<[kind |-> re[i], c |-> ""]>> \o Lex(re, i + 1)
    ELSE <<[kind |-> "lit", c |-> re[i]]>> \o Lex(re, i + 1)

\* the alternatives of a token sequence, split at "|"
RECURSIVE SplitAlternatives(_, _)
SplitAlternatives(toks, cur) ==
    IF Len(toks) = 0 THEN <<cur>>
    ELSE IF toks[1].kind = "|"
         THEN <<cur>> \o SplitAlternatives(Tail(toks), <<>>)
    ELSE SplitAlternatives(Tail(toks), Append(cur, toks[1]))

\* regexp.MustCompile for that fragment: the alternatives of the group and
\* whether the expression is anchored at the end of the text
MustCompile(re) ==
    LET toks     == Lex(re, 1)
        anchored == Len(toks) > 0 /\ toks[Len(toks)].kind = "$"
        body     == IF anchored THEN SubSeq(toks, 1, Len(toks) - 1) ELSE toks
        grouped  == /\ Len(body) >= 2
                    /\ body[1].kind = "("
                    /\ body[Len(body)].kind = ")"
        inner    == IF grouped THEN SubSeq(body, 2, Len(body) - 1) ELSE body
    IN  [alts |-> SplitAlternatives(inner, <<>>), anchored |-> anchored]

\* alternative alt of prog matches text from position i on
MatchesAt(prog, alt, text, i) ==
    LET atoms == prog.alts[alt]
        last  == i + Len(atoms) - 1
    IN  /\ last <= Len(text)
        /\ \A j \in 1..Len(atoms) :
              \/ atoms[j].kind = "any"
              \/ atoms[j].kind = "lit" /\ atoms[j].c = text[i + j - 1]
        /\ prog.anchored => last = Len(text)

Min(S) == CHOOSE x \in S : \A y \in S : x <= y

\* (*Regexp).FindStringSubmatch: the leftmost match and its group, or the
\* empty slice when there is no match
FindStringSubmatch(prog, text) ==
    LET hits == {<<i, a>> \in (1..(Len(text) + 1)) \X (1..Len(prog.alts)) :
                    MatchesAt(prog, a, text, i)}
    IN  IF hits = {} THEN <<>>
        ELSE LET i == Min({h[1] : h \in hits})
                 a == Min({h[2] : h \in {g \in hits : g[1] = i}})
                 m == SubSeq(text, i, i + Len(prog.alts[a]) - 1)
             IN  <<m, m>>

(***************************************************************************)
(* DetermineType.  order is the order in which this call's range over      *)
(* typeInfoMap visits the keys: Go leaves the iteration order of a map     *)
(* unspecified, so every permutation of the keys is possible.              *)
(***************************************************************************)
\* order[k] is the k-th key visited; the keys are 1..5, so the orders are the
\* bijections of Types
MapOrders == Permutations(Types)

\* variant: the expression is built from the first extension alone
LoopBodyMatchesFirstExtension(f, archType) ==
    LET info  == typeInfoMap[archType]
        regex == IF info.regex = <<>> THEN makeRegex(<<info.extensions[1]>>)
                 ELSE info.regex
        m     == FindStringSubmatch(MustCompile(regex), f)
    IN  Len(m) # 0

\* the body of the loop for one key: true when len(m) != 0, that is when
\* the loop returns archType
LoopBodyMatches(f, archType) ==
    LET info  == typeInfoMap[archType]
        \* info is the loop's copy: the assignment does not reach the map
        regex == IF info.regex = <<>> THEN makeRegex(info.extensions)
                 ELSE info.regex
        m     == FindStringSubmatch(MustCompile(regex), f)
    IN  Len(m) # 0

\* the loop over the keys in the given order, from its k-th key on;
\* matched[archType] is the outcome of the loop body for archType
RECURSIVE RangeTypeInfoMap(_, _, _)
RangeTypeInfoMap(order, k, matched) ==
    IF k > Cardinality(Types) THEN [type |-> TypeZero, err |-> ErrUnknownType]
    ELSE IF matched[order[k]] THEN [type |-> order[k], err |-> NilErr]
    ELSE RangeTypeInfoMap(order, k + 1, matched)

\* the results DetermineType(name) can return, one for each visiting order
DetermineType(name) ==
    LET f       == ToLower(name)
        matched == << LoopBodyMatches(f, Tar), LoopBodyMatches(f, TarBz2),
                      LoopBodyMatches(f, TarGz), LoopBodyMatches(f, TarXz),
                      LoopBodyMatches(f, Zip) >>
    IN  {RangeTypeInfoMap(order, 1, matched) : order \in MapOrders}

(***************************************************************************)
(* The filenames DetermineType is called with: up to MaxParts fragments.   *)
(***************************************************************************)
Fragments ==
    { <<"f", "o", "o">>, <<"/">>, <<"\\">>, <<"1">>, <<"2">>,
      <<"y", "t", "a", "r">>,
      <<".", "t", "a", "r">>, <<".", "t", "A", "r">>,
      <<".", "b", "z", "2">>, <<".", "b", "z", "i", "p", "2">>,
      <<".", "t", "b", "z">>,
      <<".", "g", "z">>, <<".", "t", "g", "z">>, <<".", "T", "G", "Z">>,
      <<".", "x", "z">>, <<".", "X", "Z">>, <<".", "t", "x", "z">>,
      <<".", "z", "i", "p">>, <<".", "Z", "i", "P">>,
      <<".", "z", "U+0130", "p">> }

Init ==
    /\ typeInfoMap = InitTypeInfoMap
    /\ filename = <<>>
    /\ parts = 0
    /\ rpc = "Building"
    /\ result = [type |-> TypeZero, err |-> NilErr]
    /\ visited = <<>>
    /\ gor = [g \in 1..NumCalls |->
                [pc |-> "Idle", f |-> <<>>, remaining |-> {}, info |-> TypeInfo(<<>>),
                 result |-> [type |-> TypeZero, err |-> NilErr]]]
    /\ wpc = "Idle"
    /\ walker = "none"
    /\ archive = [openErr |-> NilErr, headerOK |-> TRUE, entries |-> <<>>, corruptAt |-> 0]
    /\ callback = [isNil |-> TRUE, returns |-> [i \in 1..MaxEntries |-> FALSE]]
    /\ open = {}
    /\ deferred = <<>>
    /\ streamErr = NilErr
    /\ pos = 0
    /\ calls = <<>>
    /\ ret = NilErr

\* the caller composes the filename
AppendFragment ==
    /\ rpc = "Building"
    /\ parts < MaxParts
    /\ \E frag \in Fragments : filename' = filename \o frag
    /\ parts' = parts + 1
    /\ UNCHANGED <<typeInfoMap, rpc, result>>
    /\ UNCHANGED wvars
    /\ UNCHANGED cvars

\* a call DetermineType(filename)
CallDetermineType ==
    /\ rpc = "Building"
    /\ result' \in DetermineType(filename)
    /\ rpc' = "Returned"
    /\ UNCHANGED <<typeInfoMap, filename, parts>>
    /\ UNCHANGED wvars
    /\ UNCHANGED cvars

ResolverNext == AppendFragment \/ CallDetermineType

SpecResolver == Init /\ [][ResolverNext]_vars

(***************************************************************************)
(* The same call with the order of its range loop recorded in visited.     *)
(***************************************************************************)
\* the outcome of the loop body for each key
LoopOutcomes(f) ==
    << LoopBodyMatches(f, Tar), LoopBodyMatches(f, TarBz2),
       LoopBodyMatches(f, TarGz), LoopBodyMatches(f, TarXz),
       LoopBodyMatches(f, Zip) >>

\* the keys the loop tests when it visits them in the given order, from its
\* k-th key on: it returns at the first key whose body matches
RECURSIVE VisitedKeys(_, _, _)
VisitedKeys(order, k, matched) ==
    IF k > Cardinality(Types) THEN <<>>
    ELSE IF matched[order[k]] THEN <<order[k]>>
    ELSE <<order[k]>> \o VisitedKeys(order, k + 1, matched)

\* what DetermineType(name) can do: the keys tested and the result, one
\* pair for each visiting order
DetermineTypeVisits(name) ==
    LET matched == LoopOutcomes(ToLower(name))
    IN  {[visited |-> VisitedKeys(order, 1, matched),
          result  |-> RangeTypeInfoMap(order, 1, matched)] : order \in MapOrders}

DetermineTypeInOrder ==
    /\ rpc = "Building"
    /\ parts <= MaxVisitParts
    /\ \E v \in DetermineTypeVisits(filename) :
          /\ visited' = v.visited
          /\ result' = v.result
    /\ rpc' = "Returned"
    /\ UNCHANGED <<typeInfoMap, filename, parts, gor>>
    /\ UNCHANGED wvars

OrderNext == AppendFragment \/ DetermineTypeInOrder

SpecOrder == Init /\ [][OrderNext]_vars

(***************************************************************************)
(* The walkers.                                                            *)
(***************************************************************************)
TarWalkers == {"WalkTar", "WalkTarBzip2", "WalkTarGz", "WalkTarXz"}
Walkers == TarWalkers \cup {"WalkZip"}

EntryNames == {"sample/", "sample/text/lorem.txt"}

\* the archives of up to MaxEntries entries: whether the path opens, whether
\* the file starts with the header its format asks for, the entries in the
\* order of the stream (of the catalog, for zip), and the number of the call
\* of reader.Next() that meets a corrupt header or the truncation (0: none)
Archives ==
    UNION {[openErr : {NilErr, ErrNotExist}, headerOK : BOOLEAN,
            entries : [1..n -> EntryNames], corruptAt : 0..(n + 1)] :
           n \in 0..MaxEntries}

\* the callbacks: nil, or a function whose i-th invocation returns
\* CallbackError(i) when returns[i], nil otherwise
Callbacks ==
    {cb \in [isNil : BOOLEAN, returns : [1..MaxEntries -> BOOLEAN]] :
        cb.isNil => \A i \in 1..MaxEntries : ~cb.returns[i]}

InvokeCallback(i) == IF callback.returns[i] THEN CallbackError(i) ELSE NilErr

Range(s) == {s[i] : i \in DOMAIN s}

\* variant: the Close call is not deferred
DeferCloseMissing(stack, x) == stack

\* defer x.Close()
DeferClose(stack, x) == Append(stack, x)

\* return err: the deferred Close calls run before the call returns
Return(err) ==
    /\ ret' = err
    /\ wpc' = "Closed"
    /\ open' = open \ Range(deferred)
    /\ deferred' = <<>>

\* variant: the cause is returned as it is
OpenFailureUnwrapped(err) == err

\* if err != nil { return fmt.Errorf(fmtErrArchiveOpen, err) }
OpenFailure(err) == Errorf(fmtErrArchiveOpen, err)

\* variant: the open format is reused for the decoder's failure
NewReaderFailureAsOpen(w, err) == Errorf(fmtErrArchiveOpen, err)

\* if err != nil { return fmt.Errorf(fmtErrNewGzReader / fmtErrNewXzReader, err) }
NewReaderFailure(w, err) ==
    Errorf(IF w = "WalkTarGz" THEN fmtErrNewGzReader ELSE fmtErrNewXzReader, err)

\* the caller calls one of the walkers
Call ==
    /\ wpc = "Idle"
    /\ \E w \in Walkers, ar \in Archives, cb \in Callbacks :
          \* plain tar has no compression header; zip reads no entry stream
          /\ w = "WalkTar" => ar.headerOK
          /\ w = "WalkZip" => ar.corruptAt = 0
          /\ walker' = w
          /\ archive' = ar
          /\ callback' = cb
    /\ wpc' = "Opening"
    /\ UNCHANGED <<open, deferred, streamErr, pos, calls, ret>>
    /\ UNCHANGED rvars
    /\ UNCHANGED cvars

\* WalkZip: zip.OpenReader(archivePath), which also reads the catalog
WalkZipOpen ==
    /\ wpc = "Opening"
    /\ walker = "WalkZip"
    /\ LET err == IF archive.openErr # NilErr THEN archive.openErr
                  ELSE IF ~archive.headerOK THEN ErrZipFormat
                  ELSE NilErr
       IN  IF err # NilErr
           THEN Return(OpenFailure(err))
           ELSE /\ open' = open \cup {"zip"}
                /\ deferred' = DeferClose(deferred, "zip")
                /\ wpc' = "Iterating"
                /\ UNCHANGED ret
    /\ UNCHANGED <<walker, archive, callback, streamErr, pos, calls>>
    /\ UNCHANGED rvars
    /\ UNCHANGED cvars

\* the tar walkers: os.Open(archivePath)
OpenFile ==
    /\ wpc = "Opening"
    /\ walker \in TarWalkers
    /\ IF archive.openErr # NilErr
       THEN Return(OpenFailure(archive.openErr))
       ELSE /\ open' = open \cup {"file"}
            /\ deferred' = DeferClose(deferred, "file")
            /\ wpc' = "NewReader"
            /\ UNCHANGED ret
    /\ UNCHANGED <<walker, archive, callback, streamErr, pos, calls>>
    /\ UNCHANGED rvars
    /\ UNCHANGED cvars

\* WalkTar: tar.NewReader(file)
NewTarReader ==
    /\ wpc = "NewReader"
    /\ walker = "WalkTar"
    /\ wpc' = "Iterating"
    /\ UNCHANGED <<walker, archive, callback, open, deferred, streamErr, pos, calls, ret>>
    /\ UNCHANGED rvars
    /\ UNCHANGED cvars

\* WalkTarBzip2: bzip2.NewReader(file) reads nothing and cannot fail; a bad
\* header shows at the first read
NewBzip2Reader ==
    /\ wpc = "NewReader"
    /\ walker = "WalkTarBzip2"
    /\ streamErr' = IF archive.headerOK THEN NilErr ELSE ErrBzip2Magic
    /\ wpc' = "Iterating"
    /\ UNCHANGED <<walker, archive, callback, open, deferred, pos, calls, ret>>
    /\ UNCHANGED rvars
    /\ UNCHANGED cvars

\* WalkTarGz: gzip.NewReader(file) reads the gzip header
NewGzReader ==
    /\ wpc = "NewReader"
    /\ walker = "WalkTarGz"
    /\ IF ~archive.headerOK
       THEN Return(NewReaderFailure(walker, ErrGzipHeader))
       ELSE /\ open' = open \cup {"gzip"}
            /\ deferred' = DeferClose(deferred, "gzip")
            /\ wpc' = "Iterating"
            /\ UNCHANGED ret
    /\ UNCHANGED <<walker, archive, callback, streamErr, pos, calls>>
    /\ UNCHANGED rvars
    /\ UNCHANGED cvars

\* WalkTarXz: xz.NewReader(file, 0).  The xz package is not part of the
\* repository: a bad header is rejected either by NewReader or by the first
\* read through the reader.  The reader has no Close method and holds
\* nothing but memory.
NewXzReader ==
    /\ wpc = "NewReader"
    /\ walker = "WalkTarXz"
    /\ \/ /\ ~archive.headerOK
          /\ Return(NewReaderFailure(walker, ErrXzHeader))
          /\ UNCHANGED streamErr
       \/ /\ streamErr' = IF archive.headerOK THEN NilErr ELSE ErrXzHeader
          /\ wpc' = "Iterating"
          /\ UNCHANGED <<open, deferred, ret>>
    /\ UNCHANGED <<walker, archive, callback, pos, calls>>
    /\ UNCHANGED rvars
    /\ UNCHANGED cvars

\* (*tar.Reader).Next() after n entries were delivered
TarNext(ar, stream, n) ==
    IF stream # NilErr THEN [header |-> "", err |-> stream]
    ELSE IF ar.corruptAt = n + 1
         THEN [header |-> "",
               err |-> IF n < Len(ar.entries) THEN ErrTarHeader ELSE ErrUnexpectedEOF]
    ELSE IF n = Len(ar.entries) THEN [header |-> "", err |-> EOF]
    ELSE [header |-> ar.entries[n + 1], err |-> NilErr]

\* variant: the callback's error is dropped and the loop goes on
ReadTarBodyIgnoresCallbackError(err, cbIsNil, cb) ==
    IF err = EOF THEN [invoke |-> FALSE, stop |-> TRUE, ret |-> NilErr]
    ELSE IF err # NilErr THEN [invoke |-> FALSE, stop |-> TRUE, ret |-> err]
    ELSE [invoke |-> ~cbIsNil, stop |-> FALSE, ret |-> NilErr]

\* variant: the callback is invoked without the nil test
ReadTarBodyCallsNilCallback(err, cbIsNil, cb) ==
    IF err = EOF THEN [invoke |-> FALSE, stop |-> TRUE, ret |-> NilErr]
    ELSE IF err # NilErr THEN [invoke |-> FALSE, stop |-> TRUE, ret |-> err]
    ELSE IF cb # NilErr THEN [invoke |-> TRUE, stop |-> TRUE, ret |-> cb]
    ELSE [invoke |-> TRUE, stop |-> FALSE, ret |-> NilErr]

\* variant: every error of reader.Next() ends the loop as io.EOF does
ReadTarBodySwallowsDecodeError(err, cbIsNil, cb) ==
    IF err # NilErr THEN [invoke |-> FALSE, stop |-> TRUE, ret |-> NilErr]
    ELSE IF ~cbIsNil
         THEN IF cb # NilErr THEN [invoke |-> TRUE, stop |-> TRUE, ret |-> cb]
              ELSE [invoke |-> TRUE, stop |-> FALSE, ret |-> NilErr]
    ELSE [invoke |-> FALSE, stop |-> FALSE, ret |-> NilErr]

\* one pass through the body of readTar's loop, given what reader.Next()
\* returned: whether the callback is invoked, whether readTar returns, and
\* with what.  cb is the callback's invocation.
ReadTarBody(err, cbIsNil, cb) ==
    IF err = EOF THEN [invoke |-> FALSE, stop |-> TRUE, ret |-> NilErr]
    ELSE IF err # NilErr THEN [invoke |-> FALSE, stop |-> TRUE, ret |-> err]
    ELSE IF ~cbIsNil
         THEN IF cb # NilErr THEN [invoke |-> TRUE, stop |-> TRUE, ret |-> cb]
              ELSE [invoke |-> TRUE, stop |-> FALSE, ret |-> NilErr]
    ELSE [invoke |-> FALSE, stop |-> FALSE, ret |-> NilErr]

\* readTar: one iteration of the loop; the walker returns what readTar returns
readTar ==
    /\ wpc = "Iterating"
    /\ walker \in TarWalkers
    /\ LET next == TarNext(archive, streamErr, pos)
           step == ReadTarBody(next.err, callback.isNil, InvokeCallback(Len(calls) + 1))
       IN  /\ pos' = IF next.err = NilErr THEN pos + 1 ELSE pos
           /\ calls' = IF step.invoke
                       THEN Append(calls, [idx |-> pos + 1, name |-> next.header])
                       ELSE calls
           /\ IF step.stop THEN Return(step.ret)
              ELSE UNCHANGED <<wpc, open, deferred, ret>>
    /\ UNCHANGED <<walker, archive, callback, streamErr>>
    /\ UNCHANGED rvars
    /\ UNCHANGED cvars

\* variant: the loop is left after the first successful invocation
WalkZipBodyBreaks(cbIsNil, cb) ==
    IF ~cbIsNil
    THEN [invoke |-> TRUE, stop |-> TRUE, ret |-> cb]
    ELSE [invoke |-> FALSE, stop |-> FALSE, ret |-> NilErr]

\* one pass through the body of WalkZip's loop over r.File
WalkZipBody(cbIsNil, cb) ==
    IF ~cbIsNil
    THEN IF cb # NilErr THEN [invoke |-> TRUE, stop |-> TRUE, ret |-> cb]
         ELSE [invoke |-> TRUE, stop |-> FALSE, ret |-> NilErr]
    ELSE [invoke |-> FALSE, stop |-> FALSE, ret |-> NilErr]

\* WalkZip: one iteration of the loop over r.File, or the return after it
WalkZipRange ==
    /\ wpc = "Iterating"
    /\ walker = "WalkZip"
    /\ IF pos = Len(archive.entries)
       THEN /\ Return(NilErr)
            /\ UNCHANGED <<pos, calls>>
       ELSE LET step == WalkZipBody(callback.isNil, InvokeCallback(Len(calls) + 1))
            IN  /\ pos' = pos + 1
                /\ calls' = IF step.invoke
                            THEN Append(calls, [idx |-> pos + 1,
                                                name |-> archive.entries[pos + 1]])
                            ELSE calls
                /\ IF step.stop THEN Return(step.ret)
                   ELSE UNCHANGED <<wpc, open, deferred, ret>>
    /\ UNCHANGED <<walker, archive, callback, streamErr>>
    /\ UNCHANGED rvars
    /\ UNCHANGED cvars

Next ==
    \/ Call
    \/ WalkZipOpen
    \/ OpenFile
    \/ NewTarReader
    \/ NewBzip2Reader
    \/ NewGzReader
    \/ NewXzReader
    \/ readTar
    \/ WalkZipRange

Spec == Init /\ [][Next]_vars

(***************************************************************************)
(* Concurrent calls.  NumCalls goroutines call DetermineType, each one     *)
(* call after another, while a further goroutine walks an archive.  Each   *)
(* pass through the body of DetermineType's loop is a step of its own, so  *)
(* that the calls interleave inside the loop; the keys not yet visited are *)
(* kept in remaining, and the loop may take any of them next.              *)
(***************************************************************************)
ConcurrentNames == {<<"f", "o", "o">>, <<"x">> \o ExtTgz}

\* variant: the loop stores its copy back, typeInfoMap[archType] = info
AssignInfoRegexInMap(map, archType, regex) ==
    [map EXCEPT ![archType].regex = regex]

\* info.regex = makeRegex(info.extensions): info is the loop variable, a copy
\* of the map's entry, so the map is left as it was
AssignInfoRegex(map, archType, regex) == map

\* go DetermineType(name), by a goroutine that is idle or back from a call
GoDetermineType ==
    /\ \E g \in 1..NumCalls, name \in ConcurrentNames :
          /\ gor[g].pc \in {"Idle", "Returned"}
          /\ gor' = [gor EXCEPT ![g] = [pc |-> "Ranging",
                                        f |-> ToLower(name),
                                        remaining |-> DOMAIN typeInfoMap,
                                        info |-> TypeInfo(<<>>),
                                        result |-> [type |-> TypeZero,
                                                    err |-> NilErr]]]
    /\ UNCHANGED <<typeInfoMap, filename, parts, rpc, result, visited>>
    /\ UNCHANGED wvars

\* one pass through the body of the loop in one of the calls
GoRangeBody ==
    /\ \E g \in 1..NumCalls :
          /\ gor[g].pc = "Ranging"
          /\ \E archType \in gor[g].remaining :
                LET info  == typeInfoMap[archType]
                    regex == IF info.regex = <<>> THEN makeRegex(info.extensions)
                             ELSE info.regex
                    m     == FindStringSubmatch(MustCompile(regex), gor[g].f)
                IN  /\ typeInfoMap' =
                          IF info.regex = <<>>
                          THEN AssignInfoRegex(typeInfoMap, archType, regex)
                          ELSE typeInfoMap
                    /\ gor' = IF Len(m) # 0
                              THEN [gor EXCEPT ![g].pc = "Returned",
                                               ![g].info = [info EXCEPT !.regex = regex],
                                               ![g].result = [type |-> archType,
                                                              err |-> NilErr]]
                              ELSE [gor EXCEPT ![g].remaining = @ \ {archType}]
    /\ UNCHANGED <<filename, parts, rpc, result, visited>>
    /\ UNCHANGED wvars

\* the loop is over: return 0, ErrUnknownType
GoRangeEnd ==
    /\ \E g \in 1..NumCalls :
          /\ gor[g].pc = "Ranging"
          /\ gor[g].remaining = {}
          /\ gor' = [gor EXCEPT ![g].pc = "Returned",
                                ![g].result = [type |-> TypeZero,
                                               err |-> ErrUnknownType]]
    /\ UNCHANGED <<typeInfoMap, filename, parts, rpc, result, visited>>
    /\ UNCHANGED wvars

\* go WalkTarGz / WalkZip on a sample archive of one entry, with a callback
\* that returns nil
GoWalk ==
    /\ wpc = "Idle"
    /\ \E w \in {"WalkTarGz", "WalkZip"} : walker' = w
    /\ archive' = [openErr |-> NilErr, headerOK |-> TRUE,
                   entries |-> <<"sample/">>, corruptAt |-> 0]
    /\ callback' = [isNil |-> FALSE, returns |-> [i \in 1..MaxEntries |-> FALSE]]
    /\ wpc' = "Opening"
    /\ UNCHANGED <<open, deferred, streamErr, pos, calls, ret>>
    /\ UNCHANGED rvars
    /\ UNCHANGED cvars

ConcurrentNext ==
    \/ GoDetermineType
    \/ GoRangeBody
    \/ GoRangeEnd
    \/ GoWalk
    \/ WalkZipOpen
    \/ OpenFile
    \/ NewGzReader
    \/ readTar
    \/ WalkZipRange

SpecConcurrent == Init /\ [][ConcurrentNext]_vars

(***************************************************************************)
(* Vocabulary of the properties.                                           *)
(***************************************************************************)
\* the suffixes registered for each type
RegisteredSuffixes(t) ==
    CASE t = Tar    -> {ExtTar}
      [] t = TarBz2 -> {ExtTarBz2, ExtTarBzip2, ExtTbz, ExtTbz2}
      [] t = TarGz  -> {ExtTarGz, ExtTgz}
      [] t = TarXz  -> {ExtTarXz, ExtTxz}
      [] t = Zip    -> {ExtZip}

\* upper-case runes and their lower-case forms
CasePairs ==
    {<<"A", "a">>, <<"B", "b">>, <<"G", "g">>, <<"I", "i">>, <<"P", "p">>,
     <<"R", "r">>, <<"T", "t">>, <<"X", "x">>, <<"Z", "z">>, <<"U+0130", "i">>}

Lowercased(s) ==
    [i \in 1..Len(s) |->
        IF \E cp \in CasePairs : cp[1] = s[i]
        THEN (CHOOSE cp \in CasePairs : cp[1] = s[i])[2]
        ELSE s[i]]

HasSuffix(s, suffix) ==
    /\ Len(suffix) <= Len(s)
    /\ SubSeq(s, Len(s) - Len(suffix) + 1, Len(s)) = suffix

\* the lowercased form of name ends with a suffix registered for t
EndsWithSuffixOf(name, t) ==
    \E suffix \in RegisteredSuffixes(t) : HasSuffix(Lowercased(name), suffix)

Unknown == [type |-> TypeZero, err |-> ErrUnknownType]

\* the archive opens, has the header its format asks for and no corrupt entry
ValidArchive ==
    /\ archive.openErr = NilErr
    /\ archive.headerOK
    /\ archive.corruptAt = 0

\* the callback's invocations when every entry is visited once, in order
AllEntriesInOrder ==
    [i \in 1..Len(archive.entries) |-> [idx |-> i, name |-> archive.entries[i]]]

\* the callback is not nil and none of its first n invocations fails
CallbackPasses(n) ==
    /\ ~callback.isNil
    /\ \A i \in 1..n : i <= MaxEntries => ~callback.returns[i]

\* the decode error reader.Next() meets in a corrupt or truncated archive
CorruptionError ==
    IF archive.corruptAt <= Len(archive.entries) THEN ErrTarHeader
    ELSE ErrUnexpectedEOF

(***************************************************************************)
(* C1.  For every filename whose lowercased form ends with a registered    *)
(* suffix, in any mix of upper and lower case, DetermineType returns the   *)
(* type the suffix is registered for, together with a nil error.           *)
(***************************************************************************)
C1_RegisteredSuffixGivesType ==
    rpc = "Returned" =>
        \A t \in Types :
            EndsWithSuffixOf(filename, t) => result = [type |-> t, err |-> NilErr]

\* "x.tAr.XZ"-like: a mixed-case suffix resolved to TarXz
C1_Witness ==
    /\ rpc = "Returned"
    /\ filename = <<".", "t", "A", "r", ".", "X", "Z">>
    /\ result = [type |-> TarXz, err |-> NilErr]

(***************************************************************************)
(* C2.  For every filename whose lowercased form ends with no registered   *)
(* suffix (also when a suffix is followed by further characters, as in     *)
(* "foo.tar1"), DetermineType returns the zero Type with ErrUnknownType;   *)
(* and it never returns any other error.                                   *)
(***************************************************************************)
C2_NoSuffixGivesUnknown ==
    rpc = "Returned" =>
        /\ (\A t \in Types : ~EndsWithSuffixOf(filename, t)) => result = Unknown
        /\ result.err \in {NilErr, ErrUnknownType}
        /\ result.err = ErrUnknownType => result.type = TypeZero

\* ".tar1": the suffix is there, followed by one more character
C2_Witness ==
    /\ rpc = "Returned"
    /\ filename = ExtTar \o <<"1">>
    /\ result = Unknown

(***************************************************************************)
(* C3.  Only the suffix at the very end of the string decides: for a       *)
(* filename f ending in a registered suffix and any prefix p,              *)
(* DetermineType(p + f) returns what DetermineType(f) returns; and a type  *)
(* is returned only if one of its suffixes is at the end of the string, so *)
(* a suffix occurring only before the end never causes a match.            *)
(***************************************************************************)
C3_OnlyTrailingSuffixDecides ==
    rpc = "Returned" =>
        /\ \A k \in 2..Len(filename) :
              LET f == SubSeq(filename, k, Len(filename))
              IN  (\E t \in Types : EndsWithSuffixOf(f, t))
                      => DetermineType(f) = {result}
        /\ \A t \in Types : result.type = t => EndsWithSuffixOf(filename, t)

\* ".zip.txz": the prefix holds another type's suffix, the end decides
C3_Witness ==
    /\ rpc = "Returned"
    /\ filename = ExtZip \o ExtTxz
    /\ result = [type |-> TarXz, err |-> NilErr]

(***************************************************************************)
(* C4.  For each of the five walkers, when the path cannot be opened the   *)
(* call returns a non-nil open-failure error carrying the underlying       *)
(* cause, and the callback is invoked zero times.                          *)
(***************************************************************************)
C4_OpenFailure ==
    archive.openErr # NilErr =>
        /\ calls = <<>>
        /\ wpc = "Closed" =>
              /\ ret # NilErr
              /\ ret.msg = fmtErrArchiveOpen
              /\ ret.cause = archive.openErr.msg

C4_Witness ==
    /\ wpc = "Closed"
    /\ walker = "WalkTarBzip2"
    /\ archive.openErr = ErrNotExist
    /\ ~callback.isNil
    /\ Len(archive.entries) = 2
    /\ ret = Errorf(fmtErrArchiveOpen, ErrNotExist)

(***************************************************************************)
(* C5.  In every walker, when the callback returns a non-nil error for an  *)
(* entry, iteration stops at that entry: that invocation is the last one,  *)
(* and the walker returns exactly that error value.                        *)
(***************************************************************************)
C5_CallbackErrorStops ==
    \A i \in 1..Len(calls) :
        InvokeCallback(i) # NilErr =>
            /\ i = Len(calls)
            /\ wpc = "Closed"
            /\ ret = InvokeCallback(i)

\* the callback fails at the second of three entries: the third is not visited
C5_Witness ==
    /\ wpc = "Closed"
    /\ Len(archive.entries) = 3
    /\ ValidArchive
    /\ Len(calls) = 2
    /\ ret = CallbackError(2)

(***************************************************************************)
(* C6.  Walking a valid archive with a callback that always returns nil    *)
(* invokes the callback exactly once per entry, in the order of the stream *)
(* (of the catalog, for zip), none skipped, repeated or reordered, and     *)
(* then returns nil.                                                       *)
(***************************************************************************)
C6_OncePerEntryInOrder ==
    (ValidArchive /\ CallbackPasses(MaxEntries)) =>
        /\ calls = SubSeq(AllEntriesInOrder, 1, Len(calls))
        /\ wpc = "Closed" => (calls = AllEntriesInOrder /\ ret = NilErr)

C6_Witness ==
    /\ wpc = "Closed"
    /\ walker = "WalkTarXz"
    /\ ValidArchive
    /\ CallbackPasses(MaxEntries)
    /\ Len(archive.entries) >= 3
    /\ archive.entries[1] # archive.entries[2]
    /\ calls = AllEntriesInOrder

(***************************************************************************)
(* C7.  With a nil callback no invocation is attempted, iteration still    *)
(* advances through every entry, the walker returns nil on a valid         *)
(* archive, and a decode error met during iteration is still returned.     *)
(***************************************************************************)
C7_NilCallback ==
    callback.isNil =>
        /\ calls = <<>>
        /\ (wpc = "Closed" /\ ValidArchive) =>
              (ret = NilErr /\ pos = Len(archive.entries))
        /\ (/\ wpc = "Closed"
            /\ walker \in TarWalkers
            /\ archive.openErr = NilErr
            /\ archive.headerOK
            /\ archive.corruptAt > 0) =>
              (ret = CorruptionError /\ pos = archive.corruptAt - 1)

\* a nil callback, two entries passed, the third header corrupt
C7_Witness ==
    /\ callback.isNil
    /\ wpc = "Closed"
    /\ walker \in TarWalkers
    /\ Len(archive.entries) = 3
    /\ pos = 2
    /\ ret = ErrTarHeader

(***************************************************************************)
(* C8.  For every walker and every exit path (end of archive, decoder      *)
(* construction failure, decode error, callback error), every file handle  *)
(* and decompression resource the call opened is closed when it returns.   *)
(***************************************************************************)
C8_ResourcesReleased ==
    wpc = "Closed" => (open = {} /\ deferred = <<>>)

\* WalkTarGz, which opens the file and the gzip reader, leaving by a
\* callback error
C8_Witness ==
    /\ wpc = "Closed"
    /\ walker = "WalkTarGz"
    /\ Len(calls) = 2
    /\ ret = CallbackError(2)
    /\ open = {}

(***************************************************************************)
(* C9.  In the tar walkers, when the container or the decompression layer  *)
(* reports a decode error while advancing to the next entry, iteration     *)
(* stops, the callback is invoked neither for that entry nor for a later   *)
(* one, and the walker returns that decode error itself.                   *)
(***************************************************************************)
C9_DecodeErrorPropagates ==
    (wpc = "Closed" /\ walker \in TarWalkers /\ archive.openErr = NilErr) =>
        \* the decompression layer rejects its input at the first read
        /\ streamErr # NilErr => (ret = streamErr /\ calls = <<>>)
        \* the tar reader meets a corrupt header or the truncation
        /\ (/\ archive.headerOK
            /\ archive.corruptAt > 0
            /\ callback.isNil \/ CallbackPasses(archive.corruptAt - 1)) =>
              /\ ret = CorruptionError
              /\ pos = archive.corruptAt - 1
              /\ \A i \in 1..Len(calls) : calls[i].idx < archive.corruptAt

\* a truncated archive: three entries delivered, then the decode error
C9_Witness ==
    /\ wpc = "Closed"
    /\ walker = "WalkTar"
    /\ Len(calls) = 3
    /\ archive.corruptAt = 4
    /\ ret = ErrUnexpectedEOF

(***************************************************************************)
(* C10.  In WalkTarGz and WalkTarXz, when the file opens but the           *)
(* decompression filter rejects the stream header on construction, the     *)
(* call returns a decoder-construction-failure error that differs from     *)
(* every open-failure error, and the callback is invoked zero times.       *)
(***************************************************************************)
C10_NewReaderFailure ==
    (/\ wpc = "Closed"
     /\ walker \in {"WalkTarGz", "WalkTarXz"}
     /\ archive.openErr = NilErr
     /\ ~archive.headerOK
     /\ streamErr = NilErr) =>
        /\ ret # NilErr
        /\ ret.msg = (IF walker = "WalkTarGz" THEN fmtErrNewGzReader
                      ELSE fmtErrNewXzReader)
        /\ ret.msg # fmtErrArchiveOpen
        /\ ret.cause = (IF walker = "WalkTarGz" THEN ErrGzipHeader.msg
                        ELSE ErrXzHeader.msg)
        /\ calls = <<>>

C10_Witness ==
    /\ wpc = "Closed"
    /\ walker = "WalkTarXz"
    /\ ~callback.isNil
    /\ Len(archive.entries) = 1
    /\ ret = Errorf(fmtErrNewXzReader, ErrXzHeader)

(***************************************************************************)
(* C11.  As stated: DetermineType tests the types in the declared order    *)
(* Tar, TarBz2, TarGz, TarXz, Zip on every call and returns the first type *)
(* in that order whose suffix set matches the lowercased filename.         *)
(***************************************************************************)
DeclaredOrder == <<Tar, TarBz2, TarGz, TarXz, Zip>>

C11_DeclaredOrder ==
    rpc = "Returned" =>
        /\ visited = SubSeq(DeclaredOrder, 1, Len(visited))
        /\ \A t \in Types :
              (/\ EndsWithSuffixOf(filename, t)
               /\ \A u \in Types : u < t => ~EndsWithSuffixOf(filename, u))
                  => result = [type |-> t, err |-> NilErr]

(***************************************************************************)
(* C11, amended.  DetermineType tests the types in the order its range     *)
(* over the map yields them, which need not be the declared order, each    *)
(* type at most once, and returns the first type in the order visited      *)
(* whose suffix set matches the lowercased filename; it returns            *)
(* ErrUnknownType only after all five were tested without a match.         *)
(***************************************************************************)
C11_FirstMatchInVisitingOrder ==
    rpc = "Returned" =>
        LET n == Len(visited)
        IN  /\ n >= 1
            /\ \A i \in 1..n : visited[i] \in Types
            /\ \A i, j \in 1..n : i # j => visited[i] # visited[j]
            /\ \A i \in 1..(n - 1) : ~EndsWithSuffixOf(filename, visited[i])
            /\ IF EndsWithSuffixOf(filename, visited[n])
               THEN result = [type |-> visited[n], err |-> NilErr]
               ELSE n = Cardinality(Types) /\ result = Unknown

\* Zip was tested before TarGz, which matched
C11_Witness ==
    /\ rpc = "Returned"
    /\ filename = ExtTgz
    /\ visited = <<Zip, TarGz>>
    /\ result = [type |-> TarGz, err |-> NilErr]

(***************************************************************************)
(* C13.  For every filename at most one type's suffix set matches its end  *)
(* (no suffix registered for one type ends a suffix registered for         *)
(* another), so DetermineType returns the same result for the same         *)
(* filename whatever the order in which the table's entries are visited.   *)
(***************************************************************************)
C13_OrderIndependent ==
    /\ \A t, u \in Types :
          t # u =>
              \A i \in DOMAIN typeInfoMap[t].extensions,
                 j \in DOMAIN typeInfoMap[u].extensions :
                    ~HasSuffix(typeInfoMap[u].extensions[j],
                               typeInfoMap[t].extensions[i])
    \* were two types to match, the orders starting with either would differ
    /\ Cardinality(DetermineType(filename)) = 1

\* ".tar.zip" holds the suffixes of two types; every order gives Zip
C13_Witness ==
    /\ rpc = "Returned"
    /\ filename = ExtTar \o ExtZip
    /\ result = [type |-> Zip, err |-> NilErr]
    /\ DetermineType(filename) = {result}

====
